---- MODULE Spec2Model ----
(***************************************************************************)
(* The UART side of the interface program: the outbound send queue and its *)
(* 50 ms sender service, the heartbeat query, and the challenge-response   *)
(* handshake with its 3000 ms grace period.                                *)
(*                                                                         *)
(* Strings and Buffers are tuples of character codes / bytes; byte k of a  *)
(* Buffer is element k+1 of the tuple.                                     *)
(***************************************************************************)
EXTENDS Integers, Sequences, FiniteSets, TLC

\* ------------------------------------------------------------ bounds
MaxMsgs == 3        \* messages ever added to the send queue in one run
MaxOpens == 2       \* ports ever opened in one run
MaxIdle == 6        \* half heartbeat intervals the clock may advance to
MaxBacklog == 60    \* messages enqueued before the port of the paced run opens

\* ------------------------------------------------- program constants
txlength == 80
heartbeatInterval == 15000
senderInterval == 50
challengeGrace == 3000
NoPort == "undefined"   \* interface.port = undefined
NaN == -1           \* Number.parseInt of no digits; arithmetic on undefined
Null == <<>>        \* JS null / an absent value

Ports == {"ttyACM0", "ttyACM1"}   \* serial port candidates

VARIABLES
  isServer,         \* interface.isServer
  port,             \* interface.port: NoPort or the open port
  candidate,        \* portFinder's current candidate port
  blacklist,        \* portFinder's blacklist
  responded,        \* uart.responded
  hbTime,           \* uart.hbTime: NaN while unset, else a time in ms
  uartSendBuffer,   \* the Fifo of [txBuf, publish] entries
  timers,           \* pending setTimeout callbacks of sendChallenge
  now,              \* Date.now()
  crashed,          \* an exception escaped a callback
  conn,             \* history: number of ports opened so far
  nextId,           \* history: number of messages enqueued so far
  written,          \* history: the calls of interface.port.write, in order
  acked,            \* history: connections whose timer saw an acknowledgement
  hbAlarms,         \* history: times heartbeat showed its crash message
  probeTime,        \* history: the time of the last heartbeat call
  token,            \* the [shortName, raw] token handed to a parser
  decoded           \* the promise the parser returned for it

vars == <<isServer, port, candidate, blacklist, responded, hbTime,
          uartSendBuffer, timers, now, crashed, conn, nextId, written,
          acked, hbAlarms, probeTime, token, decoded>>

Min(a, b) == IF a < b THEN a ELSE b

\* ------------------------------------------------------------ strings
IdentifyStr == <<0, 0, 1, 73, 100, 101, 110, 116, 105, 102, 121>>
HBStr == <<0, 0, 1, 72, 66>>
BroadcastAddr == <<102, 102, 102, 102>>

\* String.prototype.substr(0, n)
substr(s, n) == SubSeq(s, 1, Min(n, Len(s)))

\* value of one hexadecimal digit, NaN for any other character
HexDigit(c) ==
  IF c >= 48 /\ c <= 57 THEN c - 48
  ELSE IF c >= 97 /\ c <= 102 THEN c - 87
  ELSE IF c >= 65 /\ c <= 70 THEN c - 55
  ELSE NaN

RECURSIVE HexPrefix(_, _, _)
HexPrefix(s, i, acc) ==
  IF i > Len(s) \/ HexDigit(s[i]) = NaN THEN acc
  ELSE HexPrefix(s, i + 1, (IF acc = NaN THEN 0 ELSE acc) * 16 + HexDigit(s[i]))

\* Number.parseInt(s, 16): the longest hexadecimal prefix, NaN when empty
parseInt16(s) == HexPrefix(s, 1, NaN)

\* ------------------------------------------------------------ buffers
BufferAlloc(n) == [i \in 1..n |-> 0]

asciiWrite(buf, s, offset) ==
  [i \in 1..Len(buf) |->
     IF i > offset /\ i - offset <= Len(s) THEN s[i - offset] % 256 ELSE buf[i]]

\* a NaN value is stored as zero bytes
writeUInt16LE(buf, v) ==
  LET w == IF v = NaN THEN 0 ELSE v
  IN  [buf EXCEPT ![1] = w % 256, ![2] = (w \div 256) % 256]

\* variant: the payload is cut one character too late
TxBufNoTerminator(msg, server) ==
  IF server /\ "internal" \notin DOMAIN msg
  THEN LET addr == IF "addr" \in DOMAIN msg /\ msg.addr # Null
                   THEN msg.addr ELSE BroadcastAddr
       IN  asciiWrite(writeUInt16LE(BufferAlloc(txlength), parseInt16(addr)),
                      substr(msg.str, txlength - 2), 2)
  ELSE asciiWrite(BufferAlloc(txlength), substr(msg.str, txlength), 0)

\* the transmit buffer uartWrite forms for msg
TxBuf(msg, server) ==
  IF server /\ "internal" \notin DOMAIN msg
  THEN LET addr == IF "addr" \in DOMAIN msg /\ msg.addr # Null
                   THEN msg.addr ELSE BroadcastAddr
       IN  asciiWrite(writeUInt16LE(BufferAlloc(txlength), parseInt16(addr)),
                      substr(msg.str, txlength - 3), 2)
  ELSE asciiWrite(BufferAlloc(txlength), substr(msg.str, txlength - 1), 0)

\* ------------------------------------------------------ the send queue
\* variant: the port check is missing
SenderIdleNoPortCheck(q, p) == q = <<>>

\* uartSender returns at once on an empty queue or an absent port
SenderIdle(q, p) == q = <<>> \/ p = NoPort

\* variant: one tick drains the whole queue
DequeueAll(q) == [items |-> q, rest |-> <<>>]

\* what one sender tick takes off the queue, and what it leaves
Dequeue(q) == [items |-> <<Head(q)>>, rest |-> Tail(q)]

\* variant: a failed message is put back for a retry
AfterWriteRetry(rest, item, err) == IF err THEN <<item>> \o rest ELSE rest

\* the queue after the write callback ran for item: an error is only shown
AfterWrite(rest, item, err) == rest

\* variant: a new entry jumps the queue
EnqueueFront(q, e) == <<e>> \o q

\* variant: the queue holds two entries and drops what is pushed on top
EnqueueFull(q, e) == IF Len(q) >= 2 THEN q ELSE Append(q, e)

\* where uartWrite puts a new entry
Enqueue(q, e) == Append(q, e)

\* a queue entry: [txBuf, publish], tagged with its enqueue number and the
\* connection it was enqueued in (0 while no port is present)
\* c is the connection that is open when the entry is pushed, 0 for none
EntryOn(msg, publish, c) ==
  [txBuf |-> TxBuf(msg, isServer), publish |-> publish,
   id |-> nextId + 1, enqConn |-> c]

Entry(msg, publish) ==
  EntryOn(msg, publish, IF port = NoPort THEN 0 ELSE conn)

\* one call of interface.port.write
WriteCall(e, err) ==
  [id |-> e.id, port |-> port, conn |-> conn, err |-> err, enqConn |-> e.enqConn]

RECURSIVE WriteCalls(_, _)
WriteCalls(items, err) ==
  IF items = <<>> THEN <<>>
  ELSE <<WriteCall(Head(items), err)>> \o WriteCalls(Tail(items), err)

\* ------------------------------------------------------------- inputs
ShortStr == <<72, 105>>
LongStr == [i \in 1..(txlength + 2) |-> 65 + (i % 26)]
TagAddr == <<48, 49, 97, 50>>

\* messages of the link specification
Msgs == { [str |-> ShortStr] }

\* messages of the buffer specification
AllMsgs ==
  { [str |-> ShortStr],
    [str |-> LongStr],
    [str |-> ShortStr, addr |-> TagAddr],
    [str |-> LongStr, addr |-> TagAddr],
    [str |-> ShortStr, addr |-> Null],
    [str |-> ShortStr, internal |-> TRUE],
    [str |-> LongStr, internal |-> TRUE],
    [str |-> LongStr, addr |-> TagAddr, internal |-> TRUE] }

Frames ==
  { <<254, 254, 1>>, <<254, 254, 1, 79, 75>>, <<254, 254, 2>>,
    <<1, 1, 1>>, <<254, 254>> }

\* ------------------------------------------------- Number(string)
\* A JS number is NaN, an infinity, or neg * mant * 10^exp with mant not
\* divisible by 10 (zero is mant 0, exp 0). Values are kept exact: the
\* rounding of a literal to 53 bits is not modelled.
NumNaN == [kind |-> "NaN"]
NumInf(neg) == [kind |-> "Infinity", neg |-> neg]

RECURSIVE Normal(_, _, _)
Normal(neg, mant, exp) ==
  IF mant = 0 THEN [kind |-> "number", neg |-> neg, mant |-> 0, exp |-> 0]
  ELSE IF mant % 10 = 0 THEN Normal(neg, mant \div 10, exp + 1)
  ELSE [kind |-> "number", neg |-> neg, mant |-> mant, exp |-> exp]

RECURSIVE NumDigits(_)
NumDigits(n) == IF n < 10 THEN 1 ELSE 1 + NumDigits(n \div 10)

\* a literal beyond the range of a double is an infinity, one below it is 0
Finite(neg, mant, exp) ==
  LET n == Normal(neg, mant, exp)
      order == NumDigits(n.mant) + n.exp - 1
  IN  IF n.mant # 0 /\ order > 308 THEN NumInf(neg)
      ELSE IF n.mant # 0 /\ order < -324 THEN Normal(neg, 0, 0)
      ELSE n

isNaN(a) == a.kind = "NaN"
NumberIsFinite(a) == a.kind = "number"

\* StrWhiteSpaceChar, within Latin-1
WhiteSpace == {9, 10, 11, 12, 13, 32, 160}

RECURSIVE TrimStart(_)
TrimStart(s) ==
  IF s # <<>> /\ Head(s) \in WhiteSpace THEN TrimStart(Tail(s)) ELSE s

RECURSIVE TrimEnd(_)
TrimEnd(s) ==
  IF s # <<>> /\ s[Len(s)] \in WhiteSpace
  THEN TrimEnd(SubSeq(s, 1, Len(s) - 1)) ELSE s

IsDigits(s) == \A i \in 1..Len(s) : s[i] >= 48 /\ s[i] <= 57

RECURSIVE RadixValue(_, _, _)
RadixValue(s, base, acc) ==
  IF s = <<>> THEN acc
  ELSE RadixValue(Tail(s), base, acc * base + HexDigit(Head(s)))

\* position of the first character of s that is in chars, 0 if none
IndexOf(s, chars) ==
  IF \E i \in 1..Len(s) : s[i] \in chars
  THEN CHOOSE i \in 1..Len(s) :
         s[i] \in chars /\ \A j \in 1..(i - 1) : s[j] \notin chars
  ELSE 0

\* the digits after 0x, 0o or 0b
RadixLiteral(ds, base) ==
  IF /\ ds # <<>>
     /\ \A i \in 1..Len(ds) : HexDigit(ds[i]) # NaN /\ HexDigit(ds[i]) < base
  THEN Finite(FALSE, RadixValue(ds, base, 0), 0)
  ELSE NumNaN

\* StrUnsignedDecimalLiteral: digits, an optional fraction, an optional
\* exponent; at least one digit before the exponent
DecimalLiteral(s, neg) ==
  LET e == IndexOf(s, {69, 101})
      m == IF e = 0 THEN s ELSE SubSeq(s, 1, e - 1)
      x == IF e = 0 THEN <<>> ELSE SubSeq(s, e + 1, Len(s))
      xneg == x # <<>> /\ Head(x) = 45
      xd == IF x # <<>> /\ Head(x) \in {43, 45} THEN Tail(x) ELSE x
      p == IndexOf(m, {46})
      ip == IF p = 0 THEN m ELSE SubSeq(m, 1, p - 1)
      fp == IF p = 0 THEN <<>> ELSE SubSeq(m, p + 1, Len(m))
      xv == IF e = 0 THEN 0
            ELSE IF xneg THEN 0 - RadixValue(xd, 10, 0)
            ELSE RadixValue(xd, 10, 0)
  IN  IF /\ IsDigits(ip)
         /\ IsDigits(fp)
         /\ ip \o fp # <<>>
         /\ (e = 0 \/ (xd # <<>> /\ IsDigits(xd)))
      THEN Finite(neg, RadixValue(ip \o fp, 10, 0), xv - Len(fp))
      ELSE NumNaN

InfinityStr == <<73, 110, 102, 105, 110, 105, 116, 121>>

\* Number(d) for a string d: white space is stripped from both ends, the
\* empty string is 0, and anything that is not one whole literal is NaN
Number(d) ==
  LET s == TrimEnd(TrimStart(d))
      signed == s # <<>> /\ Head(s) \in {43, 45}
      neg == s # <<>> /\ Head(s) = 45
      u == IF signed THEN Tail(s) ELSE s
      radix == IF Len(s) < 2 \/ s[1] # 48 THEN 0
               ELSE IF s[2] \in {120, 88} THEN 16
               ELSE IF s[2] \in {111, 79} THEN 8
               ELSE IF s[2] \in {98, 66} THEN 2
               ELSE 0
  IN  IF s = <<>> THEN Normal(FALSE, 0, 0)
      ELSE IF u = InfinityStr THEN NumInf(neg)
      ELSE IF radix # 0 THEN RadixLiteral(SubSeq(s, 3, Len(s)), radix)
      ELSE DecimalLiteral(u, neg)

\* String.prototype.split(sep) for a one-character separator
RECURSIVE split(_, _)
split(s, sep) ==
  LET i == IndexOf(s, {sep})
  IN  IF i = 0 THEN <<s>>
      ELSE <<SubSeq(s, 1, i - 1)>> \o split(SubSeq(s, i + 1, Len(s)), sep)

\* ------------------------------------------------------------ promises
\* a promise settles once: later calls of resolve and reject do nothing
Pending == [state |-> "pending"]

resolve(p, v) ==
  IF p.state = "pending" THEN [state |-> "fulfilled", value |-> v] ELSE p

\* the reason is the text of the message; the raw value follows it
reject(p, reason) ==
  IF p.state = "pending" THEN [state |-> "rejected", reason |-> reason] ELSE p

\* ------------------------------------------------- interface.dataTypes
\* variant: the humidity descriptor was copied from the temperature one
\* and kept its shortName
dataTypesDup ==
  << [shortName |-> "time", nameInDB |-> "timeStamp", forceSend |-> FALSE],
     [shortName |-> "id", nameInDB |-> "sensortagID", forceSend |-> FALSE],
     [shortName |-> "ping", nameInDB |-> "ping", forceSend |-> FALSE],
     [shortName |-> "session", nameInDB |-> "session", forceSend |-> FALSE],
     [shortName |-> "EAT", nameInDB |-> "eat", forceSend |-> FALSE],
     [shortName |-> "EXERCISE", nameInDB |-> "exercise", forceSend |-> FALSE],
     [shortName |-> "PET", nameInDB |-> "pet", forceSend |-> FALSE],
     [shortName |-> "ACTIVATE", nameInDB |-> "ACTIVATE", forceSend |-> FALSE],
     [shortName |-> "MSG1", nameInDB |-> "msg1", forceSend |-> TRUE],
     [shortName |-> "MSG2", nameInDB |-> "msg2", forceSend |-> TRUE],
     [shortName |-> "temp", nameInDB |-> "temperature", forceSend |-> FALSE],
     [shortName |-> "temp", nameInDB |-> "humidity", forceSend |-> FALSE],
     [shortName |-> "press", nameInDB |-> "pressure", forceSend |-> FALSE],
     [shortName |-> "light", nameInDB |-> "lightIntensity", forceSend |-> FALSE],
     [shortName |-> "ax", nameInDB |-> "ax", forceSend |-> FALSE],
     [shortName |-> "ay", nameInDB |-> "ay", forceSend |-> FALSE],
     [shortName |-> "az", nameInDB |-> "az", forceSend |-> FALSE],
     [shortName |-> "gx", nameInDB |-> "gx", forceSend |-> FALSE],
     [shortName |-> "gy", nameInDB |-> "gy", forceSend |-> FALSE],
     [shortName |-> "gz", nameInDB |-> "gz", forceSend |-> FALSE] >>

\* the schema registry, in the order of the source
dataTypes ==
  << [shortName |-> "time", nameInDB |-> "timeStamp", forceSend |-> FALSE],
     [shortName |-> "id", nameInDB |-> "sensortagID", forceSend |-> FALSE],
     [shortName |-> "ping", nameInDB |-> "ping", forceSend |-> FALSE],
     [shortName |-> "session", nameInDB |-> "session", forceSend |-> FALSE],
     [shortName |-> "EAT", nameInDB |-> "eat", forceSend |-> FALSE],
     [shortName |-> "EXERCISE", nameInDB |-> "exercise", forceSend |-> FALSE],
     [shortName |-> "PET", nameInDB |-> "pet", forceSend |-> FALSE],
     [shortName |-> "ACTIVATE", nameInDB |-> "ACTIVATE", forceSend |-> FALSE],
     [shortName |-> "MSG1", nameInDB |-> "msg1", forceSend |-> TRUE],
     [shortName |-> "MSG2", nameInDB |-> "msg2", forceSend |-> TRUE],
     [shortName |-> "temp", nameInDB |-> "temperature", forceSend |-> FALSE],
     [shortName |-> "humid", nameInDB |-> "humidity", forceSend |-> FALSE],
     [shortName |-> "press", nameInDB |-> "pressure", forceSend |-> FALSE],
     [shortName |-> "light", nameInDB |-> "lightIntensity", forceSend |-> FALSE],
     [shortName |-> "ax", nameInDB |-> "ax", forceSend |-> FALSE],
     [shortName |-> "ay", nameInDB |-> "ay", forceSend |-> FALSE],
     [shortName |-> "az", nameInDB |-> "az", forceSend |-> FALSE],
     [shortName |-> "gx", nameInDB |-> "gx", forceSend |-> FALSE],
     [shortName |-> "gy", nameInDB |-> "gy", forceSend |-> FALSE],
     [shortName |-> "gz", nameInDB |-> "gz", forceSend |-> FALSE] >>

\* fun of time, temp, humid, press, light, ax, ay, az, gx, gy, gz
funNumber(d, reason) ==
  LET a == Number(d)
      p1 == IF isNaN(a) \/ d = <<>> THEN reject(Pending, reason) ELSE Pending
  IN  resolve(p1, a)

HexPrefixStr == <<48, 120>>

\* fun of id
funId(d) ==
  IF ~isNaN(Number(HexPrefixStr \o d)) /\ Len(d) <= 4 /\ d # <<>>
  THEN resolve(Pending, d)
  ELSE reject(Pending, "Error: SensorTag ID has to be 4 hex digits: ")

PongStr == <<112, 111, 110, 103>>

\* fun of ping
funPing(d) == resolve(Pending, PongStr)

StartStr == <<115, 116, 97, 114, 116>>
EndStr == <<101, 110, 100>>

\* fun of session
funSession(d) ==
  IF d \in {StartStr, EndStr}
  THEN resolve(Pending, d = StartStr)
  ELSE reject(Pending, "Error: Session instruction not recognized: ")

\* fun of EAT, EXERCISE and PET: the amount goes to one slot of three
funAmount(d, slot, nonNumeric, nonFinite) ==
  LET a == Number(d)
      zero == Normal(FALSE, 0, 0)
      p1 == IF isNaN(a) \/ d = <<>> THEN reject(Pending, nonNumeric)
            ELSE Pending
      p2 == IF ~NumberIsFinite(a) THEN reject(p1, nonFinite) ELSE p1
  IN  resolve(p2, [i \in 1..3 |-> IF i = slot THEN a ELSE zero])

\* Number.isFinite(a) where a is the array of amounts: false for any
\* argument that is not a number
NumberIsFiniteOfArray(a) == FALSE

Semicolon == 59

\* fun of ACTIVATE
funACTIVATE(d) ==
  LET parts == split(d, Semicolon)
      a == [i \in 1..Len(parts) |-> Number(parts[i])]
      p1 == IF Len(a) # 3
            THEN reject(Pending, "Error: ACTIVATE needs three arguments.")
            ELSE Pending
      p2 == IF (\E i \in 1..Len(a) : isNaN(a[i])) \/ d = <<>>
            THEN reject(p1, "Error: Non-numeric ACTIVATE increment: ")
            ELSE p1
      p3 == IF \E i \in 1..Len(a) : NumberIsFiniteOfArray(a)
            THEN reject(p2, "Error: Tamagotchi cannot be ACTIVATEd the amounts: ")
            ELSE p2
  IN  resolve(p3, a)

\* fun of MSG1 and MSG2
funMSG(d) == resolve(Pending, d)

\* fun of descriptor i applied to the raw value d
fun(i, d) ==
  CASE i = 1 -> funNumber(d, "Error: Non-numeric timestamp: ")
    [] i = 2 -> funId(d)
    [] i = 3 -> funPing(d)
    [] i = 4 -> funSession(d)
    [] i = 5 -> funAmount(d, 1, "Error: Non-numeric EAT increment: ",
                        "Error: Tamagotchi cannot EAT the amount: ")
    [] i = 6 -> funAmount(d, 2, "Error: Non-numeric EXERCISE increment: ",
                        "Error: Tamagotchi cannot EXERCISE the amount: ")
    [] i = 7 -> funAmount(d, 3, "Error: Non-numeric PET increment: ",
                        "Error: Tamagotchi cannot be PET the amount: ")
    [] i = 8 -> funACTIVATE(d)
    [] i = 9 -> funMSG(d)
    [] i = 10 -> funMSG(d)
    [] i = 11 -> funNumber(d, "Error: Non-numeric temperature: ")
    [] i = 12 -> funNumber(d, "Error: Non-numeric humidity: ")
    [] i = 13 -> funNumber(d, "Error: Non-numeric pressure: ")
    [] i = 14 -> funNumber(d, "Error: Non-numeric light intensity: ")
    [] i = 15 -> funNumber(d, "Error: Non-numeric acceleration (x): ")
    [] i = 16 -> funNumber(d, "Error: Non-numeric acceleration (y): ")
    [] i = 17 -> funNumber(d, "Error: Non-numeric acceleration (z): ")
    [] i = 18 -> funNumber(d, "Error: Non-numeric gyroscope (x): ")
    [] i = 19 -> funNumber(d, "Error: Non-numeric gyroscope (y): ")
    [] i = 20 -> funNumber(d, "Error: Non-numeric gyroscope (z): ")

\* the descriptor a received shortName selects: the first one of that name
Find(name) ==
  IF \E i \in 1..Len(dataTypes) : dataTypes[i].shortName = name
  THEN CHOOSE i \in 1..Len(dataTypes) :
         /\ dataTypes[i].shortName = name
         /\ \A j \in 1..(i - 1) : dataTypes[j].shortName # name
  ELSE 0

\* raw values of the decoder specification
RawValues ==
  {
    <<>>,                                                      \* ""
    <<97, 98, 99>>,                                            \* "abc"
    <<32>>,                                                    \* " "
    <<50, 51, 46, 53>>,                                        \* "23.5"
    <<45, 52>>,                                                \* "-4"
    <<49, 101, 51>>,                                           \* "1e3"
    <<48, 120, 49, 65>>,                                       \* "0x1A"
    <<73, 110, 102, 105, 110, 105, 116, 121>>,                 \* "Infinity"
    <<49, 101, 57, 57, 57>>,                                   \* "1e999"
    <<49, 50, 97, 98, 99>>,                                    \* "12abc"
    <<48, 49, 97, 50>>,                                        \* "01a2"
    <<49, 65>>,                                                \* "1A"
    <<49, 50, 51, 52, 53>>,                                    \* "12345"
    <<49, 32>>,                                                \* "1 "
    <<115, 116, 97, 114, 116>>,                                \* "start"
    <<49, 59, 50, 59, 51>>,                                    \* "1;2;3"
    <<49, 59, 73, 110, 102, 105, 110, 105, 116, 121, 59, 51>>, \* "1;Infinity;3"
    <<49, 59, 50>>,                                            \* "1;2"
    <<49, 59, 120, 59, 51>>                                   \* "1;x;3"
  }

ShortNames ==
  { "time", "id", "ping", "session", "EAT", "EXERCISE", "PET", "ACTIVATE",
    "MSG1", "MSG2", "temp", "humid", "press", "light", "ax", "ay", "az",
    "gx", "gy", "gz" }

Tokens == { [shortName |-> n, raw |-> r] : n \in ShortNames, r \in RawValues }

NoToken == [shortName |-> "", raw |-> <<>>]

\* ------------------------------------------------------------ actions
Init ==
  /\ isServer = FALSE
  /\ port = NoPort
  /\ candidate = NoPort
  /\ blacklist = {}
  /\ responded = FALSE
  /\ hbTime = NaN
  /\ uartSendBuffer = <<>>
  /\ timers = {}
  /\ now = 0
  /\ crashed = FALSE
  /\ conn = 0
  /\ nextId = 0
  /\ written = <<>>
  /\ acked = {}
  /\ hbAlarms = 0
  /\ probeTime = NaN
  /\ token = NoToken
  /\ decoded = Pending

\* uartSenderService = setInterval(uartSender, 50); the write callback
\* receives err and only shows a message
uartSender(err) ==
  IF SenderIdle(uartSendBuffer, port)
  THEN UNCHANGED <<uartSendBuffer, written>>
  ELSE LET d == Dequeue(uartSendBuffer)
       IN  /\ uartSendBuffer' = AfterWrite(d.rest, Head(d.items), err)
           /\ written' = written \o WriteCalls(d.items, err)

UartSender ==
  /\ ~crashed
  /\ \E err \in BOOLEAN : uartSender(err)
  /\ UNCHANGED <<token, decoded>>
  /\ UNCHANGED <<isServer, port, candidate, blacklist, responded, hbTime,
                 timers, now, crashed, conn, nextId, acked, hbAlarms,
                 probeTime>>

\* variant: the publish argument is ignored and every entry is published
uartWritePublished(msg, publish) ==
  /\ uartSendBuffer' = Enqueue(uartSendBuffer, Entry(msg, TRUE))
  /\ nextId' = nextId + 1

\* the effect of uartWrite(msg, publish) on the queue
uartWrite(msg, publish) ==
  /\ uartSendBuffer' = Enqueue(uartSendBuffer, Entry(msg, publish))
  /\ nextId' = nextId + 1

\* uartWrite called while connection c is the open one
uartWriteOn(msg, publish, c) ==
  /\ uartSendBuffer' = Enqueue(uartSendBuffer, EntryOn(msg, publish, c))
  /\ nextId' = nextId + 1

\* a caller of the module calls uartWrite(msg, publish)
uartWriteCall(msg, publish) ==
  /\ ~crashed
  /\ uartWrite(msg, publish)
  /\ UNCHANGED <<token, decoded>>
  /\ UNCHANGED <<isServer, port, candidate, blacklist, responded, hbTime,
                 timers, now, crashed, conn, written, acked, hbAlarms,
                 probeTime>>

UartWrite(msg, publish) ==
  /\ nextId < MaxMsgs
  /\ uartWriteCall(msg, publish)

\* variant: the lower edge of the window is included
SuspectInclusive(t, hb) ==
  /\ hb # NaN
  /\ heartbeatInterval * 3 <= (t - hb) * 2
  /\ (t - hb) * 2 < heartbeatInterval * 5

\* the window in which heartbeat reports a possible crash; with hbTime
\* unset the difference is NaN and both comparisons are false
Suspect(t, hb) ==
  /\ hb # NaN
  /\ heartbeatInterval * 3 < (t - hb) * 2
  /\ (t - hb) * 2 < heartbeatInterval * 5

\* variant: heartbeat stores the time of its probe
HeartbeatRecordNow(t, hb) == t

\* what heartbeat leaves in uart.hbTime
HeartbeatRecord(t, hb) == hb

Heartbeat ==
  /\ ~crashed
  /\ nextId < MaxMsgs
  /\ hbAlarms' = IF Suspect(now, hbTime) THEN hbAlarms + 1 ELSE hbAlarms
  /\ uartWrite([str |-> HBStr, internal |-> TRUE], FALSE)
  /\ hbTime' = HeartbeatRecord(now, hbTime)
  /\ probeTime' = now
  /\ UNCHANGED <<token, decoded>>
  /\ UNCHANGED <<isServer, port, candidate, blacklist, responded,
                 timers, now, crashed, conn, written, acked>>

\* variant: the second byte is not compared with 0xFE
IsAckLoose(data) ==
  /\ Len(data) >= 3
  /\ data[1] = data[2]
  /\ data[3] = 1

\* the acknowledgement pattern parseChallenge looks for
IsAck(data) ==
  /\ Len(data) >= 3
  /\ data[1] = data[2]
  /\ data[2] = 254
  /\ data[3] = 1

\* portFinder.clearBlacklist()
clearBlacklist == {}

\* portFinder.nextPort(): the current candidate is blacklisted
nextPort == blacklist \cup (IF candidate = NoPort THEN {} ELSE {candidate})

\* a frame arrives from the open port
ParseChallenge(data) ==
  /\ ~crashed
  /\ port # NoPort
  /\ IF IsAck(data)
     THEN /\ blacklist' = clearBlacklist
          /\ responded' = TRUE
          /\ acked' = acked \cup {t.conn : t \in timers}
     ELSE UNCHANGED <<blacklist, responded, acked>>
  /\ UNCHANGED <<token, decoded>>
  /\ UNCHANGED <<isServer, port, candidate, hbTime, uartSendBuffer, timers,
                 now, crashed, conn, nextId, written, hbAlarms, probeTime>>

\* sendChallenge for connection c: the challenge is queued, the flag is
\* cleared and the grace period starts
sendChallenge(c) ==
  /\ uartWriteOn([str |-> IdentifyStr, internal |-> TRUE], FALSE, c)
  /\ responded' = FALSE
  /\ timers' = timers \cup {[deadline |-> now + challengeGrace, conn |-> c]}

\* a candidate port opens and is challenged
openPort(p) ==
  /\ ~crashed
  /\ port = NoPort
  /\ p \notin blacklist
  /\ port' = p
  /\ candidate' = p
  /\ conn' = conn + 1
  /\ sendChallenge(conn + 1)
  /\ UNCHANGED <<token, decoded>>
  /\ UNCHANGED <<isServer, blacklist, hbTime, now, crashed, written, acked,
                 hbAlarms, probeTime>>

OpenPort(p) ==
  /\ conn < MaxOpens
  /\ nextId < MaxMsgs
  /\ openPort(p)

\* the open port closes (unplugged, or closed by the port supervisor)
ClosePort ==
  /\ ~crashed
  /\ port # NoPort
  /\ port' = NoPort
  /\ UNCHANGED <<token, decoded>>
  /\ UNCHANGED <<isServer, candidate, blacklist, responded, hbTime,
                 uartSendBuffer, timers, now, crashed, conn, nextId, written,
                 acked, hbAlarms, probeTime>>

\* the callback sendChallenge gave to setTimeout; interface.port.close on
\* an absent port throws out of the callback
ChallengeTimeout(t) ==
  /\ ~crashed
  /\ t \in timers
  /\ now = t.deadline
  /\ timers' = timers \ {t}
  /\ IF ~responded
     THEN /\ blacklist' = nextPort
          /\ IF port = NoPort
             THEN crashed' = TRUE /\ port' = port
             ELSE crashed' = crashed /\ port' = NoPort
     ELSE UNCHANGED <<blacklist, port, crashed>>
  /\ UNCHANGED <<token, decoded>>
  /\ UNCHANGED <<isServer, candidate, responded, hbTime, uartSendBuffer,
                 now, conn, nextId, written, acked, hbAlarms, probeTime>>

\* uart.hbTime is assigned the current time
RecordHeartbeat ==
  /\ ~crashed
  /\ hbTime # now
  /\ hbTime' = now
  /\ UNCHANGED <<token, decoded>>
  /\ UNCHANGED <<isServer, port, candidate, blacklist, responded,
                 uartSendBuffer, timers, now, crashed, conn, nextId, written,
                 acked, hbAlarms, probeTime>>

\* time passes until the next pending timer is due
NextDeadline ==
  CHOOSE d \in {t.deadline : t \in timers} :
    \A u \in timers : u.deadline >= d

AdvanceToTimer ==
  /\ ~crashed
  /\ timers # {}
  /\ now < NextDeadline
  /\ now' = NextDeadline
  /\ UNCHANGED <<token, decoded>>
  /\ UNCHANGED <<isServer, port, candidate, blacklist, responded, hbTime,
                 uartSendBuffer, timers, crashed, conn, nextId, written,
                 acked, hbAlarms, probeTime>>

\* time passes while no timer is pending, half a heartbeat interval at once
AdvanceIdle ==
  /\ ~crashed
  /\ timers = {}
  /\ now + heartbeatInterval \div 2 <= MaxIdle * (heartbeatInterval \div 2)
  /\ now' = now + heartbeatInterval \div 2
  /\ UNCHANGED <<token, decoded>>
  /\ UNCHANGED <<isServer, port, candidate, blacklist, responded, hbTime,
                 uartSendBuffer, timers, crashed, conn, nextId, written,
                 acked, hbAlarms, probeTime>>

\* ----------------------------------------------------- specifications
\* the link: queue, sender service, ports and the handshake
Next ==
  \/ UartSender
  \/ \E msg \in Msgs : UartWrite(msg, TRUE)
  \/ \E data \in Frames : ParseChallenge(data)
  \/ \E p \in Ports : OpenPort(p)
  \/ ClosePort
  \/ \E t \in timers : ChallengeTimeout(t)
  \/ AdvanceToTimer

Spec == Init /\ [][Next]_vars

\* the heartbeat: probes, recorded times and the clock
NextHeartbeat ==
  \/ Heartbeat
  \/ RecordHeartbeat
  \/ AdvanceIdle

SpecHeartbeat == Init /\ [][NextHeartbeat]_vars

\* the transmit buffer: every message shape, in both modes
InitBuffer ==
  /\ isServer \in BOOLEAN
  /\ port = NoPort
  /\ candidate = NoPort
  /\ blacklist = {}
  /\ responded = FALSE
  /\ hbTime = NaN
  /\ uartSendBuffer = <<>>
  /\ timers = {}
  /\ now = 0
  /\ crashed = FALSE
  /\ conn = 0
  /\ nextId = 0
  /\ written = <<>>
  /\ acked = {}
  /\ hbAlarms = 0
  /\ probeTime = NaN
  /\ token = NoToken
  /\ decoded = Pending

NextBuffer ==
  \E msg \in AllMsgs, publish \in BOOLEAN : UartWrite(msg, publish)

SpecBuffer == InitBuffer /\ [][NextBuffer]_vars

\* the heartbeat beside the handshake: probes are sent while ports open,
\* answer, time out and are blacklisted
NextWatch ==
  \/ Heartbeat
  \/ RecordHeartbeat
  \/ AdvanceIdle
  \/ \E p \in Ports : OpenPort(p)
  \/ \E data \in Frames : ParseChallenge(data)
  \/ \E t \in timers : ChallengeTimeout(t)
  \/ AdvanceToTimer

SpecWatch == Init /\ [][NextWatch]_vars

\* messages are enqueued while no port has been opened yet
Backlog ==
  /\ port = NoPort
  /\ conn = 0
  /\ nextId < MaxBacklog
  /\ \E msg \in Msgs : uartWriteCall(msg, TRUE)

\* the first port opens, whatever the queue holds
PacedOpen(p) ==
  /\ conn = 0
  /\ openPort(p)

\* the 50 ms interval fires while a grace period runs: the clock moves on
\* by one interval and uartSender runs, its write succeeding; a timer that
\* is due earlier runs first
PacedTick ==
  /\ ~crashed
  /\ timers # {}
  /\ \A t \in timers : t.deadline >= now + senderInterval
  /\ now' = now + senderInterval
  /\ uartSender(FALSE)
  /\ UNCHANGED <<token, decoded>>
  /\ UNCHANGED <<isServer, port, candidate, blacklist, responded, hbTime,
                 timers, crashed, conn, nextId, acked, hbAlarms, probeTime>>

\* the sender service on the clock: a backlog, one port, its grace period
NextPaced ==
  \/ Backlog
  \/ \E p \in Ports : PacedOpen(p)
  \/ PacedTick
  \/ \E data \in Frames : ParseChallenge(data)
  \/ \E t \in timers : ChallengeTimeout(t)

SpecPaced == Init /\ [][NextPaced]_vars

\* the decoder: a token of a received message is handed to the parser of
\* the descriptor its shortName selects
Decode(tok) ==
  /\ Find(tok.shortName) # 0
  /\ token' = tok
  /\ decoded' = fun(Find(tok.shortName), tok.raw)
  /\ UNCHANGED <<isServer, port, candidate, blacklist, responded, hbTime,
                 uartSendBuffer, timers, now, crashed, conn, nextId, written,
                 acked, hbAlarms, probeTime>>

NextDecode == \E tok \in Tokens : Decode(tok)

SpecDecode == Init /\ [][NextDecode]_vars

\* ------------------------------------------------------------- claims
Range(q) == {q[i] : i \in 1..Len(q)}

\* C1: port.write receives the messages in the order they were enqueued:
\* the k-th write is the k-th message enqueued, and the queue holds the
\* messages enqueued after it, in order; nothing is reordered or duplicated.
C1_FifoOrder ==
  /\ \A i \in 1..Len(written) : written[i].id = i
  /\ \A i \in 1..Len(uartSendBuffer) : uartSendBuffer[i].id = Len(written) + i

\* three writes in enqueue order, spread over two connections
C1_Witness ==
  /\ Len(written) >= 3
  /\ written[1].conn # written[3].conn

\* C2: one sender tick takes at most one message off the queue and calls
\* port.write at most once, whatever the queue holds.
C2_OnePerTick ==
  [][UartSender =>
       /\ Len(written') <= Len(written) + 1
       /\ Len(uartSendBuffer') >= Len(uartSendBuffer) - 1]_vars

\* a tick wrote one message and left two in the queue
C2_Witness ==
  /\ Len(written) = 1
  /\ Len(uartSendBuffer) >= 2
  /\ port # NoPort

\* C3: a message whose write reported an error is not in the queue again,
\* is passed to port.write only once, and the next write is the message
\* enqueued right after it.
C3_ErrorDrops ==
  \A i \in 1..Len(written) :
    written[i].err =>
      /\ \A e \in Range(uartSendBuffer) : e.id # written[i].id
      /\ \A j \in 1..Len(written) : j # i => written[j].id # written[i].id
      /\ i < Len(written) => written[i + 1].id = written[i].id + 1

\* a write failed and the message behind it was written afterwards
C3_Witness ==
  \E i \in 1..Len(written) : written[i].err /\ i < Len(written)

\* the acknowledgement pattern: bytes 0xFE, 0xFE, 0x01
AckPattern(data) == Len(data) >= 3 /\ SubSeq(data, 1, 3) = <<254, 254, 1>>

\* C4: when a challenge timer expires, a challenge that saw no matching
\* frame has its candidate blacklisted and the port closed, and a challenge
\* that saw a matching frame leaves the port and the blacklist alone; a
\* matching frame clears the blacklist and sets the responded flag.
C4_HandshakeOutcome ==
  [][
      /\ \A t \in timers :
           ChallengeTimeout(t) =>
             IF t.conn \in acked
             THEN port' = port /\ blacklist' = blacklist
             ELSE port' = NoPort /\ candidate \in blacklist'
      /\ \A data \in Frames :
           (ParseChallenge(data) /\ AckPattern(data)) =>
             (blacklist' = {} /\ responded')
  ]_vars

\* C5: responded becomes true and the blacklist is emptied only by
\* parseChallenge on a frame that starts 0xFE 0xFE 0x01; on every other
\* frame parseChallenge leaves both unchanged.
C5_AckOnly ==
  [][
      /\ \A data \in Frames :
           (ParseChallenge(data) /\ ~AckPattern(data)) =>
             UNCHANGED <<blacklist, responded>>
      /\ ((responded' /\ ~responded) \/ (blacklist # {} /\ blacklist' = {})) =>
           (\E data \in Frames : AckPattern(data) /\ ParseChallenge(data))
  ]_vars

\* the first port timed out and was blacklisted, the second one, opened
\* after that, was acknowledged and the blacklist is empty again
C5_Witness ==
  /\ responded
  /\ blacklist = {}
  /\ port # NoPort
  /\ acked = {2}
  /\ timers = {[deadline |-> 2 * challengeGrace, conn |-> 2]}

\* the elapsed time lies strictly inside (1.5, 2.5) heartbeat intervals
InWindow(elapsed) ==
  /\ elapsed > (heartbeatInterval * 3) \div 2
  /\ elapsed < (heartbeatInterval * 5) \div 2

\* C6: a heartbeat call shows the crash message exactly when the time since
\* the recorded heartbeat is strictly between 1.5 and 2.5 intervals; at
\* both edges, outside the window and with no recorded time it shows none.
C6_Window ==
  [][Heartbeat =>
       IF hbTime # NaN /\ InWindow(now - hbTime)
       THEN hbAlarms' = hbAlarms + 1
       ELSE hbAlarms' = hbAlarms]_vars

\* one probe raised the alarm and a later one, at the upper edge, did not
C6_Witness ==
  /\ hbAlarms = 1
  /\ nextId >= 2
  /\ hbTime # NaN
  /\ (probeTime - hbTime) * 2 = heartbeatInterval * 5

\* C7 as claimed: every message is written during the connection it was
\* enqueued in, never to a port opened after it was enqueued.
C7_NoStaleWrite ==
  \A w \in Range(written) : w.enqConn = w.conn

\* C7 as amended: closing a port leaves the queue as it is, and an entry
\* leaves the queue only when a sender tick hands the head of the queue to
\* the port that is present.
C7_QueueKept ==
  [][
      /\ (port # NoPort /\ port' = NoPort) =>
           uartSendBuffer' = uartSendBuffer
      /\ (Len(uartSendBuffer') < Len(uartSendBuffer)) =>
           /\ port # NoPort
           /\ uartSendBuffer' = Tail(uartSendBuffer)
           /\ Len(written') = Len(written) + 1
           /\ written'[Len(written')].id = Head(uartSendBuffer).id
           /\ written'[Len(written')].port = port
  ]_vars

\* a message enqueued before the current port was opened was written to it
C7_Witness ==
  \E w \in Range(written) : w.enqConn # w.conn /\ w.port # NoPort

\* C8: the timer of a challenge whose port has been closed has no effect:
\* it changes neither the port, nor the blacklist, nor does it fail.
C8_StaleTimerInert ==
  [][\A t \in timers :
       ChallengeTimeout(t) /\ ~(port # NoPort /\ t.conn = conn) =>
         UNCHANGED <<port, blacklist, crashed>>]_vars

\* the destination address of msg as a number
HexValue(a) ==
  LET v(i) == HexDigit(a[i])
  IN  IF Len(a) = 4 THEN 4096 * v(1) + 256 * v(2) + 16 * v(3) + v(4) ELSE NaN

AddrOf(msg) ==
  IF "addr" \in DOMAIN msg /\ msg.addr # Null THEN HexValue(msg.addr) ELSE 65535

\* buf is txlength bytes: the address in bytes 0-1 when prefixed, then the
\* payload cut to leave a final zero byte, then zeros
Layout(buf, msg, prefixed) ==
  LET start == IF prefixed THEN 2 ELSE 0
      n == Min(Len(msg.str), txlength - 1 - start)
  IN  /\ Len(buf) = txlength
      /\ buf[txlength] = 0
      /\ prefixed => buf[1] = AddrOf(msg) % 256 /\ buf[2] = AddrOf(msg) \div 256
      /\ \A k \in (start + 1)..txlength :
           buf[k] = IF k - start <= n THEN msg.str[k - start] ELSE 0

\* C9 as claimed: in multiplexed mode every enqueued buffer carries the
\* address in bytes 0-1 and the payload from byte 2, otherwise the payload
\* from byte 0.
C9_LayoutByMode ==
  [][\A msg \in AllMsgs, publish \in BOOLEAN :
       UartWrite(msg, publish) =>
         Layout(uartSendBuffer'[Len(uartSendBuffer')].txBuf, msg, isServer)]_vars

\* C9 as amended: the address prefix is written only in multiplexed mode
\* for a message without the key 'internal'; an internal message is raw
\* text from byte 0 in either mode.
C9_LayoutByKind ==
  [][\A msg \in AllMsgs, publish \in BOOLEAN :
       UartWrite(msg, publish) =>
         Layout(uartSendBuffer'[Len(uartSendBuffer')].txBuf, msg,
                isServer /\ "internal" \notin DOMAIN msg)]_vars

\* multiplexed mode holds an addressed, truncated message and an internal
\* one that starts with its own text
C9_Witness ==
  /\ isServer
  /\ \E e \in Range(uartSendBuffer) :
       e.txBuf[1] = 162 /\ e.txBuf[2] = 1 /\ e.txBuf[txlength - 1] # 0
  /\ \E e \in Range(uartSendBuffer) :
       e.txBuf[1] = LongStr[1] /\ e.txBuf[txlength - 1] = LongStr[txlength - 1]

\* C10 as claimed: after a heartbeat call uart.hbTime is the time of that
\* probe.
C10_RecordsSendTime ==
  [][Heartbeat => hbTime' = now]_vars

\* C10 as amended: a heartbeat call leaves uart.hbTime as it was.
C10_LeavesHbTime ==
  [][Heartbeat => hbTime' = hbTime]_vars

\* a probe was sent after the recorded time and the record kept the old time
C10_Witness ==
  /\ probeTime # NaN
  /\ hbTime # NaN
  /\ hbTime < probeTime

\* C11: no two field descriptors of the schema registry have the same
\* shortName, so the shortName of a received token selects exactly one
\* descriptor.
C11_UniqueShortNames ==
  /\ \A i, j \in 1..Len(dataTypes) :
       i # j => dataTypes[i].shortName # dataTypes[j].shortName
  /\ token # NoToken =>
       Cardinality({i \in 1..Len(dataTypes) :
                      dataTypes[i].shortName = token.shortName}) = 1

\* a token of the last descriptor of the registry was selected and parsed
C11_Witness ==
  /\ token.shortName = "gz"
  /\ decoded.state = "fulfilled"

NumericFields ==
  {"time", "temp", "humid", "press", "light", "ax", "ay", "az", "gx", "gy",
   "gz"}

\* a raw value with nothing in it but white space, or one that is not one
\* whole numeric literal
NotNumeric(raw) == TrimStart(raw) = <<>> \/ isNaN(Number(raw))

\* C12: for every numeric field a raw value that is empty or not entirely
\* numeric yields an error and never a typed value; an accepted raw value
\* yields the value of its own parser, whatever was parsed before it.
C12_NumericOnly ==
  (token # NoToken /\ token.shortName \in NumericFields) =>
    /\ NotNumeric(token.raw) => decoded.state = "rejected"
    /\ decoded.state = "fulfilled" => decoded.value = Number(token.raw)

\* the value parseChallenge returns to its caller
parseChallengeReturn(data) == FALSE

\* C13: parseChallenge returns true exactly when the frame matches the
\* acknowledgement pattern 0xFE, 0xFE, 0x01, and false otherwise.
C13_ReturnsVerdict ==
  [][
      \A data \in Frames :
        ParseChallenge(data) => (parseChallengeReturn(data) <=> AckPattern(data))
  ]_vars

FourHexDigits(raw) ==
  /\ Len(raw) = 4
  /\ \A i \in 1..Len(raw) : HexDigit(raw[i]) # NaN

\* C16: the parser of the id field accepts a raw value only if it is 4
\* hexadecimal digits, returning it unchanged, and rejects every other raw
\* value with an error.
C16_FourHexDigits ==
  (token # NoToken /\ token.shortName = "id") =>
    /\ decoded.state = "fulfilled" =>
         (FourHexDigits(token.raw) /\ decoded.value = token.raw)
    /\ ~FourHexDigits(token.raw) => decoded.state = "rejected"

\* three components, each one whole numeric literal of a finite amount
ThreeFiniteAmounts(raw) ==
  LET parts == split(raw, Semicolon)
  IN  /\ Len(parts) = 3
      /\ \A i \in 1..Len(parts) : NumberIsFinite(Number(parts[i]))

\* C17: the parser of the ACTIVATE field accepts a raw value only if it is
\* three ';'-separated components that are all numeric and finite,
\* resolving to the three numbers in order; any other raw value is rejected.
C17_ThreeFiniteAmounts ==
  (token # NoToken /\ token.shortName = "ACTIVATE") =>
    /\ decoded.state = "fulfilled" =>
         /\ ThreeFiniteAmounts(token.raw)
         /\ decoded.value =
              [i \in 1..3 |-> Number(split(token.raw, Semicolon)[i])]
    /\ ~ThreeFiniteAmounts(token.raw) => decoded.state = "rejected"

\* C14: uartWrite never refuses: whatever the port, the handshake and the
\* depth of the queue, one call appends exactly one entry to the tail of
\* the queue, leaves the earlier entries as they were and writes nothing
\* to a port.
C14_AlwaysAppends ==
  [][
      \A msg \in Msgs :
        UartWrite(msg, TRUE) =>
          /\ Len(uartSendBuffer') = Len(uartSendBuffer) + 1
          /\ SubSeq(uartSendBuffer', 1, Len(uartSendBuffer)) = uartSendBuffer
          /\ uartSendBuffer'[Len(uartSendBuffer')].txBuf = TxBuf(msg, isServer)
          /\ uartSendBuffer'[Len(uartSendBuffer')].publish = TRUE
          /\ written' = written
          /\ port' = port
  ]_vars

\* calls were taken with no port and with an answered port: three entries
\* wait, one pushed before the port opened and the last one after
C14_Witness ==
  /\ port # NoPort
  /\ responded
  /\ Len(uartSendBuffer) >= 3
  /\ \E e \in Range(uartSendBuffer) : e.enqConn = 0
  /\ uartSendBuffer[Len(uartSendBuffer)].enqConn = conn

\* C19: while no port is present a sender tick removes nothing from the
\* queue and writes nothing, so the queue and its order stay as they are.
C19_TickWithoutPort ==
  [][
      (UartSender /\ port = NoPort) =>
        (uartSendBuffer' = uartSendBuffer /\ written' = written)
  ]_vars

\* the port is gone after messages were written to it, and messages wait
C19_Witness ==
  /\ port = NoPort
  /\ Len(uartSendBuffer) >= 2
  /\ Len(written) >= 1

\* C15: heartbeat detection is advisory only: a heartbeat call, flagging a
\* suspected crash or not, leaves the port, the responded flag, the
\* blacklist and the pending timers as they are, and enqueues exactly one
\* internal probe (the text at byte 0, no address) whose publish flag is
\* false.
C15_Advisory ==
  [][
      Heartbeat =>
        /\ port' = port
        /\ responded' = responded
        /\ blacklist' = blacklist
        /\ timers' = timers
        /\ crashed' = crashed
        /\ Len(uartSendBuffer') = Len(uartSendBuffer) + 1
        /\ SubSeq(uartSendBuffer', 1, Len(uartSendBuffer)) = uartSendBuffer
        /\ uartSendBuffer'[Len(uartSendBuffer')].publish = FALSE
        /\ SubSeq(uartSendBuffer'[Len(uartSendBuffer')].txBuf, 1, Len(HBStr))
             = HBStr
  ]_vars

\* a heartbeat call flagged a suspected crash while an answered port was
\* open, and its probe waits in the queue
C15_Witness ==
  /\ hbAlarms >= 1
  /\ port # NoPort
  /\ responded
  /\ probeTime = now
  /\ uartSendBuffer # <<>>
  /\ uartSendBuffer[Len(uartSendBuffer)].enqConn = conn
  /\ uartSendBuffer[Len(uartSendBuffer)].publish = FALSE

\* the transmit buffer of the Identify challenge
IdentifyBuf == TxBuf([str |-> IdentifyStr, internal |-> TRUE], isServer)

\* C18: when the handshake timer of a port that is still open expires, the
\* Identify challenge enqueued by the same sendChallenge call has been
\* written to that port, whatever the queue held at the call.
C18_ChallengeInTime ==
  [][
      \A t \in timers :
        (ChallengeTimeout(t) /\ port # NoPort /\ conn = t.conn) =>
          /\ \A e \in Range(uartSendBuffer) :
                ~(e.enqConn = t.conn /\ e.txBuf = IdentifyBuf)
          /\ \E w \in Range(written) :
                w.enqConn = t.conn /\ w.conn = t.conn
  ]_vars
====
